---- MODULE Spec2Model ----
(***************************************************************************)
(* Tenant ("entity") registry, schema store and membership model of the    *)
(* multi-tenant ledger backend (Django app `entities`).                     *)
(*                                                                          *)
(* The database runs in autocommit mode (no ATOMIC_REQUESTS, no             *)
(* transaction.atomic outside QuerySet.get_or_create/update_or_create and   *)
(* SchemaManager.clone_schema): every ORM statement is committed when it    *)
(* returns, and an exception raised later in the handler does not undo it.  *)
(* Model.save() writes the row and then sends post_save to the receivers    *)
(* of signals.py in the order they are registered; an exception raised by   *)
(* a receiver propagates to the caller of save().                           *)
(***************************************************************************)
EXTENDS Integers, Sequences, FiniteSets, TLC

(***************************************************************************)
(* Bounds of the model.                                                     *)
(***************************************************************************)
MaxEntities == 2
MaxLifecycleTenants == 1
MaxMemberTenants == 1
MaxMemberships == 2
MaxStamp == 2
MaxRows == 1

(***************************************************************************)
(* Program constants.                                                       *)
(***************************************************************************)
MaxSchemaLen == 63

Users == {"alice", "bob"}
Superusers == {"root"}
NoUser == "nobody"

Roles == {"owner", "admin", "manager", "accountant", "auditor", "viewer"}
MembershipStatuses == {"active", "inactive", "invited", "suspended"}

(***************************************************************************)
(* Strings are sequences of one-character strings.                          *)
(***************************************************************************)
Repeat(c, n) == [i \in 1..n |-> c]

Take(s, n) == IF Len(s) <= n THEN s ELSE SubSeq(s, 1, n)

EntityPrefix == <<"e", "n", "t", "i", "t", "y", "_">>

LowerLetters == {"a", "b", "c", "d", "e", "i", "n", "t", "y", "z"}
UpperLetters == {"A", "B", "Z"}
Digits == {"0", "1", "9"}
NamePunctuation == {" ", "-", ".", ",", "&"}

\* str.lower() on one character
Lower(c) ==
    CASE c = "A" -> "a"
      [] c = "B" -> "b"
      [] c = "Z" -> "z"
      [] OTHER -> c

\* str.isalnum() on one character
IsAlnum(c) == c \in LowerLetters \cup UpperLetters \cup Digits

LowerStr(s) == [i \in 1..Len(s) |-> Lower(s[i])]

ReplaceSpace(s) == [i \in 1..Len(s) |-> IF s[i] = " " THEN "_" ELSE s[i]]

KeepAlnumUnderscore(s) == SelectSeq(s, LAMBDA c : IsAlnum(c) \/ c = "_")

\* str.strip() for the blank character
RECURSIVE StripLeft(_)
StripLeft(s) ==
    IF s # <<>> /\ Head(s) = " " THEN StripLeft(Tail(s)) ELSE s

RECURSIVE StripRight(_)
StripRight(s) ==
    IF s # <<>> /\ s[Len(s)] = " " THEN StripRight(SubSeq(s, 1, Len(s) - 1)) ELSE s

Strip(s) == StripRight(StripLeft(s))

\* EntityValidator.validate_entity_name: at least 2 characters once stripped,
\* at most 255, only letters, digits, white space and - . , &
ValidEntityName(name) ==
    /\ name # <<>>
    /\ Len(Strip(name)) >= 2
    /\ Len(name) <= 255
    /\ \A i \in 1..Len(name) :
          name[i] \in LowerLetters \cup UpperLetters \cup Digits \cup NamePunctuation

\* the schema name Entity.save derives from the entity name
DeriveSchemaName(name) ==
    Take(EntityPrefix \o KeepAlnumUnderscore(ReplaceSpace(LowerStr(name))),
         MaxSchemaLen)

\* Entity.save: the schema name is derived only while the field is empty
SchemaNameOnSaveAlways(current, name) == DeriveSchemaName(name)

SchemaNameOnSave(current, name) ==
    IF current = <<>> THEN DeriveSchemaName(name) ELSE current

\* the validator of Entity.schema_name: ^[a-z][a-z0-9_]*$
MatchesSchemaRegex(s) ==
    /\ Len(s) >= 1
    /\ s[1] \in LowerLetters
    /\ \A i \in 1..Len(s) : s[i] \in LowerLetters \cup Digits \cup {"_"}

(***************************************************************************)
(* State: the rows of the shared tables, the namespaces of the Schema       *)
(* Store, and the response of the last operation.                           *)
(***************************************************************************)
VARIABLES
    entities,           \* rows of table entities
    memberships,        \* rows of table entity_memberships
    settings,           \* rows of table entity_settings
    audit,              \* rows of table entity_audit_logs
    schemas,            \* namespaces present in the Schema Store
    tables,             \* tables of the namespaces, with their rows
    search_path,        \* search_path of each worker's database connection
    nextEntityId,       \* stands for the next uuid4 of Entity.id
    nextMembershipId,   \* stands for the next uuid4 of EntityMembership.id
    calls,              \* invite requests in flight, per worker
    response            \* outcome of the last operation

vars == <<entities, memberships, settings, audit, schemas, tables, search_path,
          nextEntityId, nextMembershipId, calls, response>>

\* the tables as one value, threaded through the steps of a handler
DB == [entities |-> entities, memberships |-> memberships,
       settings |-> settings, audit |-> audit, schemas |-> schemas,
       tables |-> tables]

Commit(db) ==
    /\ entities' = db.entities
    /\ memberships' = db.memberships
    /\ settings' = db.settings
    /\ audit' = db.audit
    /\ schemas' = db.schemas
    /\ tables' = db.tables

Respond(op, code, error) ==
    response' = [op |-> op, code |-> code, error |-> error]

\* result of a step: the tables after it and the exception it raised, if any
Step(db, exc) == [db |-> db, exc |-> exc]

\* transaction.atomic: an exception leaving the block undoes its writes
Atomic(before, step) ==
    IF step.exc # "" THEN Step(before, step.exc) ELSE step

(***************************************************************************)
(* Schema Store (SchemaManager).  `ok` is whether the statement reaches the *)
(* database; every exception is caught and reported as False.               *)
(***************************************************************************)
CreateSchema(present, schema_name, ok) ==
    IF ~ok THEN [schemas |-> present, ret |-> FALSE]
    ELSE IF schema_name \in present THEN [schemas |-> present, ret |-> FALSE]
    ELSE [schemas |-> present \cup {schema_name}, ret |-> TRUE]

SchemaExists(present, schema_name) == schema_name \in present

(***************************************************************************)
(* Audit Log.  A row is kept as its tenant and its action tag; the user,    *)
(* description, changes and request columns do not influence any operation. *)
(***************************************************************************)
AuditEntry(entity, user, action) ==
    [entity |-> entity, action |-> action]

AuditOverwrite(db, entity, user, action) ==
    [db EXCEPT !.audit = {AuditEntry(entity, user, action)}]

AuditCreate(db, entity, user, action) ==
    [db EXCEPT !.audit = @ \cup {AuditEntry(entity, user, action)}]

(***************************************************************************)
(* Tenant Settings: one-to-one with the tenant.                             *)
(***************************************************************************)
SettingsOf(rows, entity) == {s \in rows : s.entity = entity}

\* EntitySettings.objects.create: the OneToOneField is a unique column
SettingsCreate(db, entity) ==
    IF SettingsOf(db.settings, entity) # {}
    THEN Step(db, "IntegrityError")
    ELSE Step([db EXCEPT !.settings = @ \cup {[entity |-> entity, n |-> 1]}], "")

\* EntitySettings.objects.get_or_create
SettingsGetOrCreate(db, entity) ==
    IF SettingsOf(db.settings, entity) # {} THEN db
    ELSE SettingsCreate(db, entity).db

(***************************************************************************)
(* Entity rows.                                                             *)
(***************************************************************************)
EntityById(rows, id) == CHOOSE e \in rows : e.id = id

EntityIds(rows) == {e.id : e \in rows}

NewEntity(id, name, created_by) ==
    [id |-> id, name |-> name, schema_name |-> SchemaNameOnSave(<<>>, name),
     status |-> "pending", is_active |-> TRUE, created_by |-> created_by,
     activated_at |-> 0]

\* the unique columns of table entities
EntityUniqueViolation(rows, e) ==
    \E o \in rows : o.id # e.id /\ (o.name = e.name \/ o.schema_name = e.schema_name)

\* post_save receivers of Entity for a created row, in registration order:
\* create_entity_schema, create_entity_settings, entity_post_save
EntityPostSaveCreated(db, e, ok1, ok2) ==
    LET d1 == [db EXCEPT !.schemas = CreateSchema(@, e.schema_name, ok1).schemas]
        d2 == SettingsGetOrCreate(d1, e.id)
        d3 == [d2 EXCEPT !.schemas = CreateSchema(@, e.schema_name, ok2).schemas]
    IN  AuditCreate(d3, e.id, NoUser, "entity_created")

\* post_save receivers of Entity for an updated row: only entity_post_save acts
EntityPostSaveUpdated(db, e) ==
    AuditCreate(db, e.id, NoUser, "entity_updated")

\* Entity.objects.create
EntityCreate(db, e, ok1, ok2) ==
    IF EntityUniqueViolation(db.entities, e)
    THEN Step(db, "IntegrityError")
    ELSE Step(EntityPostSaveCreated([db EXCEPT !.entities = @ \cup {e}], e, ok1, ok2), "")

\* save() of an existing Entity row
EntitySave(db, old, new) ==
    LET e == [new EXCEPT !.schema_name = SchemaNameOnSave(old.schema_name, new.name)]
    IN  IF EntityUniqueViolation(db.entities \ {old}, e)
        THEN Step(db, "IntegrityError")
        ELSE Step(EntityPostSaveUpdated(
                      [db EXCEPT !.entities = (@ \ {old}) \cup {e}], e), "")

(***************************************************************************)
(* Membership rows.                                                         *)
(***************************************************************************)
FlagNames == {"can_manage_users", "can_manage_settings", "can_view_reports",
              "can_create_entries", "can_approve_entries"}

\* column defaults of EntityMembership
DefaultFlags == [f \in FlagNames |-> (f = "can_view_reports")]
AllFlags == [f \in FlagNames |-> TRUE]

HasAllFlags(m) == \A f \in FlagNames : m[f]

FlagsOf(m) == [f \in FlagNames |-> m[f]]

NewMembership(id, entity, user, role, status, flags, invited_by) ==
    [id |-> id, entity |-> entity, user |-> user, role |-> role, status |-> status,
     can_manage_users |-> flags["can_manage_users"],
     can_manage_settings |-> flags["can_manage_settings"],
     can_view_reports |-> flags["can_view_reports"],
     can_create_entries |-> flags["can_create_entries"],
     can_approve_entries |-> flags["can_approve_entries"],
     invited_by |-> invited_by, accepted |-> FALSE]

MembershipsOf(rows, entity, user) ==
    {m \in rows : m.entity = entity /\ m.user = user}

ActiveMembershipsOf(rows, entity, user) ==
    {m \in MembershipsOf(rows, entity, user) : m.status = "active"}

\* queryset.first() of a set the unique constraint keeps to at most one row
First(rows) == CHOOSE m \in rows : TRUE

\* unique_together (entity, user) of table entity_memberships
MembershipUniqueViolationOff(rows, m) == FALSE

MembershipUniqueViolation(rows, m) ==
    \E o \in rows : o.id # m.id /\ o.entity = m.entity /\ o.user = m.user

\* set_owner_permissions: of the five attributes it assigns only
\* can_manage_users and can_manage_settings are columns of the model
OwnerPermissions(m) ==
    [m EXCEPT !.can_manage_users = TRUE, !.can_manage_settings = TRUE]

\* post_save receivers of EntityMembership for an updated row:
\* set_owner_permissions does nothing (created is False), membership_post_save
\* reads instance.tracker, which the model does not define
MembershipPostSaveUpdated(db, m) == Step(db, "AttributeError")

\* save() of an existing EntityMembership row: the UPDATE, then the receivers
MembershipSave(db, old, new) ==
    IF MembershipUniqueViolation(db.memberships \ {old}, new)
    THEN Step(db, "IntegrityError")
    ELSE MembershipPostSaveUpdated(
             [db EXCEPT !.memberships = (@ \ {old}) \cup {new}], new)

\* post_save receivers of EntityMembership for a created row, in registration
\* order: set_owner_permissions (which saves the row again), then
\* membership_post_save (invitation mail, audit entry)
MembershipPostSaveCreated(db, m) ==
    IF m.role = "owner"
    THEN MembershipSave(db, m, OwnerPermissions(m))
    ELSE Step(AuditCreate(db, m.entity, m.user, "member_added"), "")

\* EntityMembership.objects.create
MembershipCreate(db, m) ==
    IF MembershipUniqueViolation(db.memberships, m)
    THEN Step(db, "IntegrityError")
    ELSE MembershipPostSaveCreated([db EXCEPT !.memberships = @ \cup {m}], m)

\* second half of QuerySet.get_or_create: create() inside transaction.atomic;
\* an IntegrityError is answered by reading the row that won the race
MembershipGetOrCreateInsert(db, m) ==
    LET step == Atomic(db, MembershipCreate(db, m))
        found == MembershipsOf(db.memberships, m.entity, m.user)
    IN  IF step.exc = "IntegrityError" /\ found # {}
        THEN [db |-> db, exc |-> "", created |-> FALSE, row |-> First(found)]
        ELSE [db |-> step.db, exc |-> step.exc, created |-> step.exc = "", row |-> m]

\* EntityMembership.objects.get_or_create(entity, user, defaults)
MembershipGetOrCreate(db, m) ==
    LET found == MembershipsOf(db.memberships, m.entity, m.user)
    IN  IF found # {}
        THEN [db |-> db, exc |-> "", created |-> FALSE, row |-> First(found)]
        ELSE MembershipGetOrCreateInsert(db, m)

\* membership.delete(): the DELETE, then membership_post_delete
MembershipDelete(db, m) ==
    AuditCreate([db EXCEPT !.memberships = @ \ {m}], m.entity, m.user, "member_removed")

(***************************************************************************)
(* Tenant Registry operations.                                              *)
(***************************************************************************)
EntityQuerysetAnyStatus(user) ==
    IF user \in Superusers THEN entities
    ELSE {e \in entities : MembershipsOf(memberships, e.id, user) # {}}

\* EntityViewSet.get_queryset
EntityQueryset(user) ==
    IF user \in Superusers THEN entities
    ELSE {e \in entities : ActiveMembershipsOf(memberships, e.id, user) # {}}

\* EntitySerializer.create; ok[1], ok[2], ok[3] are the three create_schema
\* calls it causes (two post_save receivers, then its own)
EntitySerializerCreate(db, user, name, id, mid, ok) ==
    LET e  == NewEntity(id, name, user)
        s1 == EntityCreate(db, e, ok[1], ok[2])
        s2 == IF s1.exc # "" THEN s1
              ELSE Step([s1.db EXCEPT
                            !.schemas = CreateSchema(@, e.schema_name, ok[3]).schemas], "")
        s3 == IF s2.exc # "" THEN s2 ELSE SettingsCreate(s2.db, e.id)
    IN  IF s3.exc # "" THEN s3
        ELSE MembershipCreate(s3.db,
                 NewMembership(mid, e.id, user, "owner", "active", AllFlags, NoUser))

\* createTenant: EntityViewSet.create with perform_create
CreateTenant(user, name, ok) ==
    /\ nextEntityId <= MaxEntities
    /\ UNCHANGED <<calls, search_path>>
    /\ IF \E e \in entities : e.name = name
       THEN /\ Respond("create_tenant", "400", "ValidationError")
            /\ UNCHANGED <<entities, memberships, settings, audit, schemas, tables,
                           nextEntityId, nextMembershipId>>
       ELSE LET s == EntitySerializerCreate(DB, user, name, nextEntityId,
                                            nextMembershipId, ok)
                final == IF s.exc = ""
                         THEN AuditCreate(s.db, nextEntityId, user, "created")
                         ELSE s.db
            IN  /\ Commit(final)
                /\ nextEntityId' = IF nextEntityId \in EntityIds(final.entities)
                                   THEN nextEntityId + 1 ELSE nextEntityId
                /\ nextMembershipId' =
                       IF \E m \in final.memberships : m.id = nextMembershipId
                       THEN nextMembershipId + 1 ELSE nextMembershipId
                /\ IF s.exc = "" THEN Respond("create_tenant", "201", "")
                                 ELSE Respond("create_tenant", "500", s.exc)

\* manage.py create_entity: Entity.objects.create is called with currency and
\* timezone, which are not fields of Entity
CreateEntityCommand(name, owner_email) ==
    /\ IF owner_email \notin Users \cup Superusers
       THEN Respond("create_entity", "0", "")
       ELSE Respond("create_entity", "1", "TypeError")
    /\ UNCHANGED <<entities, memberships, settings, audit, schemas, tables,
                   nextEntityId, nextMembershipId, calls, search_path>>

\* update: EntityViewSet.partial_update with perform_update; data maps some of
\* the writable fields of EntitySerializer to new values
UpdateTenant(user, id, data) ==
    /\ UNCHANGED <<nextEntityId, nextMembershipId, calls, search_path>>
    /\ IF id \notin EntityIds(EntityQueryset(user))
       THEN /\ Respond("update_tenant", "404", "NotFound")
            /\ UNCHANGED <<entities, memberships, settings, audit, schemas, tables>>
       ELSE LET old == EntityById(entities, id)
                new == [f \in DOMAIN old |-> IF f \in DOMAIN data THEN data[f] ELSE old[f]]
            IN  IF \E o \in entities : o.id # id /\ o.name = new.name
                THEN /\ Respond("update_tenant", "400", "ValidationError")
                     /\ UNCHANGED <<entities, memberships, settings, audit, schemas, tables>>
                ELSE LET s == EntitySave(DB, old, new)
                     IN  IF s.exc # ""
                         THEN /\ Commit(s.db)
                              /\ Respond("update_tenant", "500", s.exc)
                         ELSE /\ Commit(AuditCreate(s.db, id, user, "updated"))
                              /\ Respond("update_tenant", "200", "")

\* timezone.now() written to activated_at: a value later than the stored one
Now(stamp) == stamp + 1

\* EntityViewSet.activate; perm is the verdict of IsEntityOwnerOrAdmin, whose
\* module is not part of the repository
Activate(user, id, perm) ==
    /\ UNCHANGED <<nextEntityId, nextMembershipId, calls, search_path>>
    /\ IF ~perm
       THEN /\ Respond("activate", "403", "PermissionDenied")
            /\ UNCHANGED <<entities, memberships, settings, audit, schemas, tables>>
       ELSE IF id \notin EntityIds(EntityQueryset(user))
       THEN /\ Respond("activate", "404", "NotFound")
            /\ UNCHANGED <<entities, memberships, settings, audit, schemas, tables>>
       ELSE LET old == EntityById(entities, id)
                new == [old EXCEPT !.status = "active", !.is_active = TRUE,
                                   !.activated_at = Now(@)]
                s == EntitySave(DB, old, new)
            IN  /\ old.activated_at < MaxStamp
                /\ Commit(AuditCreate(s.db, id, user, "activated"))
                /\ Respond("activate", "200", "")

\* EntityViewSet.deactivate
Deactivate(user, id, perm) ==
    /\ UNCHANGED <<nextEntityId, nextMembershipId, calls, search_path>>
    /\ IF ~perm
       THEN /\ Respond("deactivate", "403", "PermissionDenied")
            /\ UNCHANGED <<entities, memberships, settings, audit, schemas, tables>>
       ELSE IF id \notin EntityIds(EntityQueryset(user))
       THEN /\ Respond("deactivate", "404", "NotFound")
            /\ UNCHANGED <<entities, memberships, settings, audit, schemas, tables>>
       ELSE LET old == EntityById(entities, id)
                new == [old EXCEPT !.status = "inactive", !.is_active = FALSE]
                s == EntitySave(DB, old, new)
            IN  /\ Commit(AuditCreate(s.db, id, user, "deactivated"))
                /\ Respond("deactivate", "200", "")

(***************************************************************************)
(* Membership operations.                                                   *)
(***************************************************************************)
NoEntity == 0

Unchanged == UNCHANGED <<entities, memberships, settings, audit, schemas, tables>>

\* the model follows the program while fresh membership ids remain
CanAllocate == nextMembershipId <= MaxMemberships

\* a row was written under the id nextMembershipId
TakeMembershipId(db) ==
    nextMembershipId' = IF \E m \in db.memberships : m.id = nextMembershipId
                        THEN nextMembershipId + 1 ELSE nextMembershipId

\* manage.py add_entity_member; confirm is the answer to "Update existing
\* membership?"
AddEntityMember(entity_id, user_email, role, status, confirm) ==
    /\ user_email \in Users
    /\ UNCHANGED <<nextEntityId, calls, search_path>>
    /\ IF entity_id \notin EntityIds(entities)
       THEN /\ Respond("add_entity_member", "1", "CommandError")
            /\ Unchanged /\ UNCHANGED nextMembershipId
       ELSE LET existing == MembershipsOf(memberships, entity_id, user_email)
            IN  IF existing # {}
                THEN IF ~confirm
                     THEN /\ Respond("add_entity_member", "0", "")
                          /\ Unchanged /\ UNCHANGED nextMembershipId
                     ELSE LET old == First(existing)
                              s == MembershipSave(DB, old,
                                       [old EXCEPT !.role = role, !.status = status])
                          IN  /\ Commit(s.db)
                              /\ UNCHANGED nextMembershipId
                              /\ Respond("add_entity_member",
                                         IF s.exc = "" THEN "0" ELSE "1", s.exc)
                ELSE LET s == MembershipCreate(DB,
                                  NewMembership(nextMembershipId, entity_id, user_email,
                                                role, status, DefaultFlags, NoUser))
                     IN  /\ CanAllocate
                         /\ Commit(s.db)
                         /\ TakeMembershipId(s.db)
                         /\ Respond("add_entity_member",
                                    IF s.exc = "" THEN "0" ELSE "1", s.exc)

\* EntityMembership.objects.create called as such (tests, commands), with
\* the column defaults for the flags
MembershipObjectsCreate(entity_id, user, role, status) ==
    /\ entity_id \in EntityIds(entities)
    /\ user \in Users
    /\ UNCHANGED <<nextEntityId, calls, search_path>>
    /\ MembershipsOf(memberships, entity_id, user) = {} => CanAllocate
    /\ LET s == MembershipCreate(DB,
                    NewMembership(nextMembershipId, entity_id, user, role, status,
                                  DefaultFlags, NoUser))
       IN  /\ Commit(s.db)
           /\ TakeMembershipId(s.db)
           /\ Respond("membership_create", IF s.exc = "" THEN "0" ELSE "1", s.exc)

\* the checks of EntityMembershipViewSet.invite that precede the insert:
\* the code of the refusal, or "" when the request may go on
InviteRefusal(actor, entity_id, email, role, perm) ==
    IF ~perm THEN "403"
    ELSE IF entity_id \notin EntityIds(entities) THEN "404"
    ELSE LET mine == ActiveMembershipsOf(memberships, entity_id, actor)
         IN  IF mine = {} \/ ~First(mine).can_manage_users THEN "403"
             ELSE IF email \notin Users \/ role \notin Roles THEN "400"
             ELSE ""

\* the row InviteMemberSerializer.create asks get_or_create for
Invitation(id, actor, entity_id, email, role, flags) ==
    NewMembership(id, entity_id, email, role, "invited", flags, actor)

\* a handler's result: the tables it leaves and the response it returns
Outcome(db, code, error) == [db |-> db, code |-> code, error |-> error]

\* the end of invite once get_or_create has returned `got`
InviteFinish(got, actor, entity_id) ==
    IF got.exc # "" THEN Outcome(got.db, "500", got.exc)
    ELSE IF ~got.created THEN Outcome(got.db, "400", "AlreadyMember")
    ELSE Outcome(AuditCreate(got.db, entity_id, actor, "member_added"), "201", "")

\* EntityMembershipViewSet.invite with InviteMemberSerializer.create, run
\* without interference on the tables db
InviteOutcome(actor, entity_id, email, role, flags, perm) ==
    LET refusal == InviteRefusal(actor, entity_id, email, role, perm)
    IN  IF refusal # "" THEN Outcome(DB, refusal, "")
        ELSE InviteFinish(
                 MembershipGetOrCreate(DB,
                     Invitation(nextMembershipId, actor, entity_id, email, role, flags)),
                 actor, entity_id)

Invite(actor, entity_id, email, role, flags, perm) ==
    /\ UNCHANGED <<nextEntityId, calls, search_path>>
    /\ (/\ InviteRefusal(actor, entity_id, email, role, perm) = ""
        /\ MembershipsOf(memberships, entity_id, email) = {}) => CanAllocate
    /\ LET out == InviteOutcome(actor, entity_id, email, role, flags, perm)
       IN  /\ Commit(out.db)
           /\ TakeMembershipId(out.db)
           /\ Respond("invite", out.code, out.error)

\* EntityMembershipViewSet.get_queryset; entity_param is the query parameter
\* entity_id, NoEntity when absent
MembershipQueryset(user, entity_param) ==
    IF entity_param # NoEntity
    THEN {m \in memberships : m.entity = entity_param}
    ELSE {m \in memberships : ActiveMembershipsOf(memberships, m.entity, user) # {}}

MembershipIds(rows) == {m.id : m \in rows}

MembershipById(rows, id) == CHOOSE m \in rows : m.id = id

\* the checks shared by update_role and remove: get_object, then the
\* requester's manage-users flag, then the owner rule
ManageRefusalNoOwnerRule(actor, id, entity_param, perm) ==
    IF ~perm THEN "403"
    ELSE IF id \notin MembershipIds(MembershipQueryset(actor, entity_param)) THEN "404"
    ELSE LET m == MembershipById(memberships, id)
             mine == ActiveMembershipsOf(memberships, m.entity, actor)
         IN  IF mine = {} \/ ~First(mine).can_manage_users THEN "403"
             ELSE ""

ManageRefusalAnyTenant(actor, id, entity_param, perm) ==
    IF ~perm THEN "403"
    ELSE IF id \notin MembershipIds(MembershipQueryset(actor, entity_param)) THEN "404"
    ELSE LET m == MembershipById(memberships, id)
             mine == {x \in memberships : x.user = actor /\ x.status = "active"}
         IN  IF \A x \in mine : ~x.can_manage_users THEN "403"
             ELSE IF m.role = "owner" THEN "400"
             ELSE ""

ManageRefusal(actor, id, entity_param, perm) ==
    IF ~perm THEN "403"
    ELSE IF id \notin MembershipIds(MembershipQueryset(actor, entity_param)) THEN "404"
    ELSE LET m == MembershipById(memberships, id)
             mine == ActiveMembershipsOf(memberships, m.entity, actor)
         IN  IF mine = {} \/ ~First(mine).can_manage_users THEN "403"
             ELSE IF m.role = "owner" THEN "400"
             ELSE ""

\* EntityMembershipViewSet.remove
RemoveOutcome(actor, id, entity_param, perm) ==
    LET refusal == ManageRefusal(actor, id, entity_param, perm)
    IN  IF refusal # "" THEN Outcome(DB, refusal, "")
        ELSE LET m == MembershipById(memberships, id)
             IN  Outcome(AuditCreate(MembershipDelete(DB, m),
                                     m.entity, actor, "member_removed"),
                         "200", "")

Remove(actor, id, entity_param, perm) ==
    /\ UNCHANGED <<nextEntityId, nextMembershipId, calls, search_path>>
    /\ LET out == RemoveOutcome(actor, id, entity_param, perm)
       IN  Commit(out.db) /\ Respond("remove", out.code, out.error)

\* what EntityMembershipSerializer writes to the row for request data `data`
ApplyData(m, data) ==
    [f \in DOMAIN m |-> IF f \in DOMAIN data THEN data[f] ELSE m[f]]

\* EntityMembershipViewSet.update_role
UpdateRoleOutcome(actor, id, entity_param, data, perm) ==
    LET refusal == ManageRefusal(actor, id, entity_param, perm)
    IN  IF refusal # "" THEN Outcome(DB, refusal, "")
        ELSE LET old == MembershipById(memberships, id)
                 new == ApplyData(old, data)
             IN  IF \/ new.role \notin Roles
                    \/ new.entity \notin EntityIds(entities)
                    \/ MembershipUniqueViolation(memberships \ {old}, new)
                 THEN Outcome(DB, "400", "ValidationError")
                 ELSE LET s == MembershipSave(DB, old, new)
                      IN  IF s.exc # "" THEN Outcome(s.db, "500", s.exc)
                          ELSE Outcome(AuditCreate(s.db, old.entity, actor,
                                                   "member_role_changed"),
                                       "200", "")

UpdateRole(actor, id, entity_param, data, perm) ==
    /\ UNCHANGED <<nextEntityId, nextMembershipId, calls, search_path>>
    /\ LET out == UpdateRoleOutcome(actor, id, entity_param, data, perm)
       IN  Commit(out.db) /\ Respond("update_role", out.code, out.error)

\* EntityMembershipViewSet.accept_invitation
AcceptInvitation(actor, id, entity_param, perm) ==
    /\ UNCHANGED <<nextEntityId, nextMembershipId, calls, search_path>>
    /\ IF ~perm
       THEN /\ Respond("accept_invitation", "403", "") /\ Unchanged
       ELSE IF id \notin MembershipIds(MembershipQueryset(actor, entity_param))
       THEN /\ Respond("accept_invitation", "404", "") /\ Unchanged
       ELSE LET old == MembershipById(memberships, id)
            IN  IF old.user # actor
                THEN /\ Respond("accept_invitation", "403", "") /\ Unchanged
                ELSE IF old.status # "invited"
                THEN /\ Respond("accept_invitation", "400", "") /\ Unchanged
                ELSE LET s == MembershipSave(DB, old,
                                  [old EXCEPT !.status = "active", !.accepted = TRUE])
                     IN  IF s.exc # ""
                         THEN /\ Commit(s.db)
                              /\ Respond("accept_invitation", "500", s.exc)
                         ELSE /\ Commit(AuditCreate(s.db, old.entity, actor,
                                                    "member_added"))
                              /\ Respond("accept_invitation", "200", "")

\* EntityUtils.transfer_ownership: every exception is caught and reported as
\* False
TransferOwnership(entity_id, current_owner, new_owner) ==
    /\ entity_id \in EntityIds(entities)
    /\ UNCHANGED <<nextEntityId, calls, search_path>>
    /\ LET current == {m \in ActiveMembershipsOf(memberships, entity_id, current_owner) :
                          m.role = "owner"}
       IN  IF current = {}
           THEN /\ Respond("transfer_ownership", "False", "DoesNotExist")
                /\ Unchanged /\ UNCHANGED nextMembershipId
           ELSE LET got == MembershipGetOrCreate(DB,
                               NewMembership(nextMembershipId, entity_id, new_owner,
                                             "owner", "active", DefaultFlags, NoUser))
                IN  IF got.exc # ""
                    THEN /\ Commit(got.db) /\ UNCHANGED nextMembershipId
                         /\ Respond("transfer_ownership", "False", got.exc)
                    ELSE LET s1 == MembershipSave(got.db, got.row,
                                       [got.row EXCEPT !.role = "owner",
                                                       !.status = "active"])
                             cur == First({m \in s1.db.memberships :
                                              m.id = First(current).id})
                             s2 == IF s1.exc # "" THEN s1
                                   ELSE MembershipSave(s1.db, cur,
                                            [First(current) EXCEPT !.role = "admin"])
                         IN  /\ Commit(s2.db)
                             /\ TakeMembershipId(s2.db)
                             /\ Respond("transfer_ownership",
                                        IF s2.exc = "" THEN "True" ELSE "False", s2.exc)

(***************************************************************************)
(* Deletion of a tenant.                                                    *)
(***************************************************************************)
\* SchemaManager.drop_schema: DROP SCHEMA IF EXISTS; every exception is caught
\* and reported as False
DropSchemaStrict(present, schema_name, ok) ==
    IF ~ok \/ schema_name \notin present THEN [schemas |-> present, ret |-> FALSE]
    ELSE [schemas |-> present \ {schema_name}, ret |-> TRUE]

DropSchema(present, schema_name, ok) ==
    IF ~ok THEN [schemas |-> present, ret |-> FALSE]
    ELSE [schemas |-> present \ {schema_name}, ret |-> TRUE]

\* drop_schema on the tables db: CASCADE takes the tables of the namespace
DropCascade(db, schema_name, ok) ==
    LET r == DropSchema(db.schemas, schema_name, ok)
    IN  [db EXCEPT !.schemas = r.schemas,
                   !.tables = {t \in @ : t.schema \in r.schemas}]

\* the cascade over the collected memberships: each DELETE is followed by
\* membership_post_delete
RECURSIVE DeleteMemberships(_, _)
DeleteMemberships(db, rows) ==
    IF rows = {} THEN db
    ELSE LET m == First(rows)
         IN  DeleteMemberships(MembershipDelete(db, m), rows \ {m})

\* entity.delete(): one transaction that sends pre_delete, deletes the rows
\* without delete receivers (audit log, settings) by tenant, deletes the
\* memberships one by one, deletes the tenant row and sends post_delete
\* (two receivers drop the namespace); the foreign keys are checked when the
\* transaction commits
EntityDelete(db, e) ==
    LET d1 == AuditCreate(db, e.id, NoUser, "entity_deleted")
        d2 == [d1 EXCEPT !.audit = {a \in @ : a.entity # e.id},
                         !.settings = {x \in @ : x.entity # e.id}]
        d3 == DeleteMemberships(d2, {m \in db.memberships : m.entity = e.id})
        d4 == [d3 EXCEPT !.entities = @ \ {e}]
        d5 == DropCascade(DropCascade(d4, e.schema_name, TRUE), e.schema_name, TRUE)
    IN  Atomic(db, IF \/ \E a \in d5.audit : a.entity = e.id
                      \/ \E m \in d5.memberships : m.entity = e.id
                      \/ \E x \in d5.settings : x.entity = e.id
                   THEN Step(d5, "IntegrityError")
                   ELSE Step(d5, ""))

\* manage.py delete_entity; confirm is the answer to the prompt (or --force)
DeleteEntityOutcome(entity_id, keep_schema, confirm) ==
    IF entity_id \notin EntityIds(entities) THEN Outcome(DB, "1", "CommandError")
    ELSE IF ~confirm THEN Outcome(DB, "0", "cancelled")
    ELSE LET e == EntityById(entities, entity_id)
             s == EntityDelete(DB, e)
         IN  IF s.exc # "" THEN Outcome(s.db, "1", "CommandError")
             ELSE IF keep_schema THEN Outcome(s.db, "0", "")
             ELSE Outcome(DropCascade(s.db, e.schema_name, TRUE), "0", "")

DeleteEntity(entity_id, keep_schema, confirm) ==
    /\ UNCHANGED <<nextEntityId, nextMembershipId, calls, search_path>>
    /\ LET out == DeleteEntityOutcome(entity_id, keep_schema, confirm)
       IN  Commit(out.db) /\ Respond("delete_entity", out.code, out.error)

(***************************************************************************)
(* Initial state: empty tables, no tenant namespace, nothing in flight.     *)
(***************************************************************************)
Workers == {"w1", "w2"}

\* the namespace every database has, and the search_path of a new connection
PublicSchema == <<"p", "u", "b", "l", "i", "c">>

DefaultSearchPath == <<PublicSchema>>

Idle == [pc |-> "idle"]

Init ==
    /\ entities = {}
    /\ memberships = {}
    /\ settings = {}
    /\ audit = {}
    /\ schemas = {PublicSchema}
    /\ tables = {}
    /\ search_path = [w \in Workers |-> DefaultSearchPath]
    /\ nextEntityId = 1
    /\ nextMembershipId = 1
    /\ calls = [w \in Workers |-> Idle]
    /\ response = [op |-> "none", code |-> "", error |-> ""]

(***************************************************************************)
(* Tenant creation: createTenant and the create_entity command over names   *)
(* that collide by case, by stripped punctuation and by truncation.         *)
(***************************************************************************)
NameAb == <<"A", "b">>
Nameab == <<"a", "b">>
NameADotB == <<"a", ".", "b">>
NameASpaceB == <<"a", " ", "b">>
NameLongB == Repeat("a", MaxSchemaLen - Len(EntityPrefix)) \o <<"b">>
NameLong1 == Repeat("a", MaxSchemaLen - Len(EntityPrefix)) \o <<"1">>

CreateNames == {NameAb, Nameab, NameADotB, NameASpaceB, NameLongB, NameLong1}

SchemaOutcomes == [1..3 -> BOOLEAN]

AllSucceed == [i \in 1..3 |-> TRUE]

NextCreate ==
    \/ \E u \in Users, n \in CreateNames, ok \in SchemaOutcomes : CreateTenant(u, n, ok)
    \/ \E n \in CreateNames, o \in Users \cup {NoUser} : CreateEntityCommand(n, o)

SpecCreate == Init /\ [][NextCreate]_vars

(***************************************************************************)
(* Claims about tenant creation.                                            *)
(***************************************************************************)
\* createTenant is called for a name no tenant has yet
IsNewName(name) == ValidEntityName(name) /\ \A e \in entities : e.name # name

\* createTenant is called for a tenant that collides with no existing one
IsNewTenant(name) ==
    /\ IsNewName(name)
    /\ \A e \in entities : e.schema_name # DeriveSchemaName(name)

StartsWithEntityPrefix(s) ==
    Len(s) >= Len(EntityPrefix) /\ SubSeq(s, 1, Len(EntityPrefix)) = EntityPrefix

\* C5: after createTenant returns, a Tenant record persists only if its schema
\* namespace exists in the Schema Store; a failed schema creation leaves no
\* Tenant record behind.
C5_TenantOnlyWithSchema ==
    response.op = "create_tenant" =>
        \A e \in entities : SchemaExists(schemas, e.schema_name)

\* C6: createTenant is all-or-nothing: when a step after the tenant-row insert
\* fails no tenant row persists, so no tenant exists without its Settings
\* record and without an owner Membership of its creator.
C6_CreateTenantAllOrNothing ==
    [][ /\ (response'.op = "create_tenant" /\ response'.code # "201")
              => entities' = entities
        /\ \A e \in entities' :
              \/ SettingsOf(settings', e.id) # {}
              \/ \E m \in MembershipsOf(memberships', e.id, e.created_by) :
                     m.role = "owner" ]_vars

\* C7: createTenant for a new, valid tenant completes successfully and leaves
\* exactly one Settings record for it; no tenant ever has a second one.
C7_SettingsCreatedOnce ==
    [][ \A u \in Users, n \in CreateNames, ok \in SchemaOutcomes :
            (CreateTenant(u, n, ok) /\ IsNewTenant(n)) =>
                /\ response'.code = "201"
                /\ \A e \in entities' : Cardinality(SettingsOf(settings', e.id)) = 1 ]_vars

\* C8: after createTenant by user U has created a tenant, U has exactly one
\* Membership on it, with role owner, status active and all five capability
\* flags, and the schema identifier starts with entity_.
C8_CreatorIsOwner ==
    [][ (response'.op = "create_tenant" /\ entities' # entities) =>
            \A e \in entities' \ entities :
                /\ StartsWithEntityPrefix(e.schema_name)
                /\ Cardinality(MembershipsOf(memberships', e.id, e.created_by)) = 1
                /\ \A m \in MembershipsOf(memberships', e.id, e.created_by) :
                       m.role = "owner" /\ m.status = "active" /\ HasAllFlags(m) ]_vars

\* C9: for every valid tenant name not yet in use, createTenant yields a
\* tenant whose schema identifier matches ^[a-z][a-z0-9_]*$, has at most 63
\* characters and differs from that of every other tenant, also when the
\* names differ only in case or in stripped punctuation.
C9_SchemaNameValidAndDistinct ==
    [][ \A u \in Users, n \in CreateNames, ok \in SchemaOutcomes :
            (CreateTenant(u, n, ok) /\ IsNewName(n)) =>
                \E e \in entities' :
                    /\ e.name = n
                    /\ MatchesSchemaRegex(e.schema_name)
                    /\ Len(e.schema_name) <= MaxSchemaLen
                    /\ \A o \in entities' \ {e} : o.schema_name # e.schema_name ]_vars

(***************************************************************************)
(* Memberships of a tenant: the command, the API and the ownership          *)
(* transfer, by two users.                                                  *)
(***************************************************************************)
MemberNames == {Nameab, NameASpaceB}

MemberRoles == {"owner", "viewer"}

MemberFlags == {DefaultFlags, AllFlags}

RoleData == {[role |-> "owner"],
             [role |-> "viewer", can_manage_users |-> TRUE]}

MemberEntityIds == 1..MaxMemberTenants

MemberIds == 1..MaxMemberships

EntityParams == {NoEntity} \cup MemberEntityIds

NextMember ==
    \/ \E n \in MemberNames :
           nextEntityId <= MaxMemberTenants /\ CreateTenant("alice", n, AllSucceed)
    \/ \E id \in MemberEntityIds, u \in Users, r \in MemberRoles, confirm \in BOOLEAN :
           AddEntityMember(id, u, r, "active", confirm)
    \/ \E id \in MemberEntityIds, u \in Users, r \in MemberRoles :
           MembershipObjectsCreate(id, u, r, "active")
    \/ \E a \in Users, id \in MemberEntityIds, u \in Users \cup {NoUser}, r \in MemberRoles,
          fl \in MemberFlags, perm \in BOOLEAN : Invite(a, id, u, r, fl, perm)
    \/ \E a \in Users, id \in MemberIds, ep \in EntityParams, d \in RoleData,
          perm \in BOOLEAN : UpdateRole(a, id, ep, d, perm)
    \/ \E a \in Users, id \in MemberIds, ep \in EntityParams, perm \in BOOLEAN :
           Remove(a, id, ep, perm)
    \/ \E a \in Users, id \in MemberIds, ep \in EntityParams, perm \in BOOLEAN :
           AcceptInvitation(a, id, ep, perm)
    \/ \E id \in MemberEntityIds, c \in Users, n \in Users : TransferOwnership(id, c, n)

SpecMember == Init /\ [][NextMember]_vars

(***************************************************************************)
(* Claims about memberships.                                                *)
(***************************************************************************)
\* C1: every stored Membership whose role is owner has all five capability
\* flags true, whatever flags were supplied and whichever operation wrote it.
C1_OwnerHasAllFlags ==
    \A m \in memberships : m.role = "owner" => HasAllFlags(m)

IsOwnerRow(id) ==
    /\ id \in MembershipIds(memberships)
    /\ MembershipById(memberships, id).role = "owner"

\* the acting user reaches the membership and holds manage-users on its tenant
MayManage(a, id, ep, perm) ==
    /\ perm
    /\ id \in MembershipIds(MembershipQueryset(a, ep))
    /\ \E m \in ActiveMembershipsOf(memberships,
                                     MembershipById(memberships, id).entity, a) :
          m.can_manage_users

\* C4 as stated: updateRole and remove applied to a membership whose role is
\* owner always fail with Conflict (400) and leave the membership unchanged.
C4_OwnerAlwaysConflict ==
    \A a \in Users, id \in MemberIds, ep \in EntityParams, d \in RoleData,
      perm \in BOOLEAN :
        IsOwnerRow(id)
        => \A out \in {UpdateRoleOutcome(a, id, ep, d, perm),
                        RemoveOutcome(a, id, ep, perm)} :
              out.code = "400" /\ out.db.memberships = memberships

\* C4 as amended: updateRole and remove applied to a membership whose role is
\* owner always fail and leave the membership unchanged; the error is
\* Conflict (400) when the acting user passes the permission checks, and
\* Forbidden (403) or NotFound (404) otherwise.
C4_OwnerNeverChanged ==
    \A a \in Users, id \in MemberIds, ep \in EntityParams, d \in RoleData,
      perm \in BOOLEAN :
        IsOwnerRow(id)
        => \A out \in {UpdateRoleOutcome(a, id, ep, d, perm),
                        RemoveOutcome(a, id, ep, perm)} :
              /\ out.db.memberships = memberships
              /\ out.code \in {"400", "403", "404"}
              /\ MayManage(a, id, ep, perm) <=> out.code = "400"

\* the owner rule refused a request of a user who may manage members
C4_Witness ==
    /\ response.op \in {"update_role", "remove"}
    /\ response.code = "400" /\ response.error = ""
    /\ \E m \in memberships : m.role = "owner"

(***************************************************************************)
(* Concurrent invitations.  Each worker serves one invite request; the      *)
(* request reads the tables (permission checks and the lookup of            *)
(* get_or_create) and, when the lookup finds nothing, inserts in a second   *)
(* step, so the other worker's steps can fall between the two.              *)
(***************************************************************************)
\* a served request: the pair it was for, whether it got as far as the
\* insert, and what it answered
Done(entity_id, email, inserted, code, error) ==
    [pc |-> "done", entity |-> entity_id, email |-> email, inserted |-> inserted,
     code |-> code, error |-> error]

\* invite up to the lookup of get_or_create
InviteCheck(w, actor, entity_id, email, role, flags, perm) ==
    /\ calls[w].pc = "idle"
    /\ Unchanged
    /\ UNCHANGED <<nextEntityId, nextMembershipId, search_path>>
    /\ LET refusal == InviteRefusal(actor, entity_id, email, role, perm)
       IN  IF refusal # ""
           THEN /\ calls' = [calls EXCEPT ![w] = Done(entity_id, email, FALSE, refusal, "")]
                /\ Respond("invite", refusal, "")
           ELSE IF MembershipsOf(memberships, entity_id, email) # {}
           THEN /\ calls' = [calls EXCEPT ![w] =
                                 Done(entity_id, email, FALSE, "400", "AlreadyMember")]
                /\ Respond("invite", "400", "AlreadyMember")
           ELSE /\ calls' = [calls EXCEPT ![w] =
                                 [pc |-> "insert", actor |-> actor, entity |-> entity_id,
                                  email |-> email, role |-> role, flags |-> flags]]
                /\ UNCHANGED response

\* invite from the insert of get_or_create to the response
InviteInsert(w) ==
    /\ calls[w].pc = "insert"
    /\ UNCHANGED <<nextEntityId, search_path>>
    /\ LET c == calls[w]
           out == InviteFinish(
                      MembershipGetOrCreateInsert(DB,
                          Invitation(nextMembershipId, c.actor, c.entity, c.email,
                                     c.role, c.flags)),
                      c.actor, c.entity)
       IN  /\ MembershipsOf(memberships, c.entity, c.email) = {} => CanAllocate
           /\ Commit(out.db)
           /\ TakeMembershipId(out.db)
           /\ Respond("invite", out.code, out.error)
           /\ calls' = [calls EXCEPT ![w] =
                            Done(c.entity, c.email, TRUE, out.code, out.error)]

NextInvite ==
    \/ \E n \in MemberNames :
           nextEntityId <= MaxMemberTenants /\ CreateTenant("alice", n, AllSucceed)
    \/ \E id \in MemberEntityIds, r \in MemberRoles :
           AddEntityMember(id, "alice", r, "active", FALSE)
    \/ \E w \in Workers, a \in Users, id \in MemberEntityIds, u \in Users,
          r \in MemberRoles, fl \in MemberFlags, perm \in BOOLEAN :
           InviteCheck(w, a, id, u, r, fl, perm)
    \/ \E w \in Workers : InviteInsert(w)

SpecInvite == Init /\ [][NextInvite]_vars

\* both workers served an invite for the same pair and both reached the insert
Raced(w1, w2) ==
    /\ w1 # w2
    /\ calls[w1].pc = "done" /\ calls[w2].pc = "done"
    /\ calls[w1].inserted /\ calls[w2].inserted
    /\ calls[w1].entity = calls[w2].entity /\ calls[w1].email = calls[w2].email

\* C3: when two invite calls for the same (tenant, user) pair interleave their
\* check-existence and insert steps, exactly one membership row exists
\* afterwards, exactly one call reports success and the other reports the
\* conflict.
C3_ConcurrentInvites ==
    \A w1, w2 \in Workers :
        Raced(w1, w2)
        => /\ Cardinality(MembershipsOf(memberships, calls[w1].entity,
                                        calls[w1].email)) = 1
           /\ \E w \in {w1, w2} :
                 /\ calls[w].code = "201"
                 /\ \A v \in {w1, w2} \ {w} :
                       calls[v].code = "400" /\ calls[v].error = "AlreadyMember"

(***************************************************************************)
(* Tenant lifecycle: creation, update (rename), activate, deactivate, by a  *)
(* superuser and by a member.                                               *)
(***************************************************************************)
LifecycleNames == {Nameab, NameASpaceB}

LifecycleActors == {"root", "alice"}

UpdateData == {[name |-> n] : n \in LifecycleNames}

NextLifecycle ==
    \/ \E n \in LifecycleNames :
           nextEntityId <= MaxLifecycleTenants /\ CreateTenant("alice", n, AllSucceed)
    \/ \E id \in EntityIds(entities) : AddEntityMember(id, "alice", "admin", "active", FALSE)
    \/ \E u \in LifecycleActors, id \in 1..MaxEntities, d \in UpdateData :
           UpdateTenant(u, id, d)
    \/ \E u \in LifecycleActors, id \in 1..MaxEntities, perm \in BOOLEAN :
           Activate(u, id, perm)
    \/ \E u \in LifecycleActors, id \in 1..MaxEntities, perm \in BOOLEAN :
           Deactivate(u, id, perm)

SpecLifecycle == Init /\ [][NextLifecycle]_vars

\* C10: the schema identifier of a tenant is fixed at creation: no operation
\* on an existing tenant (update with rename, activate, deactivate) changes
\* its schema_name.
C10_SchemaNameFixed ==
    [][ \A e \in entities, f \in entities' :
            f.id = e.id => f.schema_name = e.schema_name ]_vars

\* a renamed tenant still carries the identifier derived from its first name
C10_Witness ==
    /\ response.op = "update_tenant" /\ response.code = "200"
    /\ \E e \in entities :
          /\ e.schema_name # DeriveSchemaName(e.name)
          /\ e.activated_at > 0

\* C11: activate and deactivate are idempotent and keep status and is_active
\* in step: activate leaves status active and is_active true, deactivate
\* leaves status inactive and is_active false, neither fails when repeated,
\* and activated_at is written by the first activation only.
C11_ActivateIdempotent ==
    [][ \A u \in LifecycleActors, id \in 1..MaxEntities :
            id \in EntityIds(EntityQueryset(u)) =>
                LET old == EntityById(entities, id)
                    new == EntityById(entities', id)
                IN  /\ Activate(u, id, TRUE) =>
                          /\ response'.code = "200"
                          /\ new.status = "active" /\ new.is_active
                          /\ new.activated_at > 0
                          /\ old.activated_at > 0 => new.activated_at = old.activated_at
                    /\ Deactivate(u, id, TRUE) =>
                          /\ response'.code = "200"
                          /\ new.status = "inactive" /\ ~new.is_active
                          /\ new.activated_at = old.activated_at ]_vars

(***************************************************************************)
(* Deletion: tenants with and without members are created and deleted.      *)
(***************************************************************************)
NextDelete ==
    \/ \E n \in LifecycleNames, ok \in {AllSucceed, [i \in 1..3 |-> FALSE]} :
           CreateTenant("alice", n, ok)
    \/ \E id \in 1..MaxEntities, u \in Users, r \in MemberRoles :
           AddEntityMember(id, u, r, "active", FALSE)
    \/ \E id \in 1..MaxEntities, keep \in BOOLEAN, confirm \in BOOLEAN :
           DeleteEntity(id, keep, confirm)

SpecDelete == Init /\ [][NextDelete]_vars

\* C12: deleteTenant drops the namespace only when keepSchema is false: with
\* keepSchema the tenant record is gone and its namespace still exists,
\* without it the namespace is gone.
C12_KeepSchemaKeepsNamespace ==
    \A e \in entities :
        /\ LET out == DeleteEntityOutcome(e.id, TRUE, TRUE)
           IN  (out.code = "0" /\ SchemaExists(schemas, e.schema_name))
               => /\ e.id \notin EntityIds(out.db.entities)
                  /\ SchemaExists(out.db.schemas, e.schema_name)
        /\ LET out == DeleteEntityOutcome(e.id, FALSE, TRUE)
           IN  out.code = "0" => ~SchemaExists(out.db.schemas, e.schema_name)

\* C13: deleteTenant completes without error and leaves no membership,
\* settings or audit entry of the deleted tenant, the entries written while
\* deleting included.
C13_DeleteLeavesNothing ==
    \A e \in entities :
        LET out == DeleteEntityOutcome(e.id, FALSE, TRUE)
        IN  /\ out.code = "0"
            /\ e.id \notin EntityIds(out.db.entities)
            /\ \A m \in out.db.memberships : m.entity # e.id
            /\ \A x \in out.db.settings : x.entity # e.id
            /\ \A a \in out.db.audit : a.entity # e.id

(***************************************************************************)
(* Schema Store: create_schema and drop_schema called with well-formed,     *)
(* malformed and reserved identifiers; ok is whether the statement is       *)
(* executed by the database.                                                *)
(***************************************************************************)
StoreA == <<"a">>
StoreB1 == <<"b", "1">>
UpperName == <<"A">>
DigitName == <<"1", "a">>
DashName == <<"a", "-", "b">>

StoreNames == {StoreA, StoreB1, UpperName, DigitName, DashName, PublicSchema}

\* what a caller of the Schema Store holds, apart from the tables
StoreFrame == UNCHANGED <<entities, memberships, settings, audit, search_path,
                          nextEntityId, nextMembershipId, calls>>

\* SchemaManager.create_schema called as such
SchemaCreate(name, ok) ==
    /\ StoreFrame
    /\ UNCHANGED tables
    /\ LET r == CreateSchema(schemas, name, ok)
       IN  /\ schemas' = r.schemas
           /\ Respond("create_schema", IF r.ret THEN "True" ELSE "False", "")

\* SchemaManager.drop_schema called as such; the database answers the drop of
\* an absent namespace with the notice "does not exist, skipping"
SchemaDrop(name, ok) ==
    /\ StoreFrame
    /\ LET r == DropSchema(schemas, name, ok)
           db == DropCascade(DB, name, ok)
       IN  /\ schemas' = db.schemas
           /\ tables' = db.tables
           /\ Respond("drop_schema", IF r.ret THEN "True" ELSE "False",
                      IF ok /\ ~SchemaExists(schemas, name) THEN "skipping" ELSE "")

NextStore ==
    \/ \E n \in StoreNames, ok \in BOOLEAN : SchemaCreate(n, ok)
    \/ \E n \in StoreNames, ok \in BOOLEAN : SchemaDrop(n, ok)

SpecStore == Init /\ [][NextStore]_vars

\* C14: create(name) returns true exactly when the namespace did not exist
\* before the call and exists now, returns false when it existed, leaves
\* exists(name) true in both cases, and returns false for no other reason.
C14_CreateReportsCreation ==
    [][ \A n \in StoreNames, ok \in BOOLEAN :
            SchemaCreate(n, ok) =>
                /\ response'.code = "True"
                       <=> (~SchemaExists(schemas, n) /\ SchemaExists(schemas', n))
                /\ response'.code = "False" => SchemaExists(schemas, n)
                /\ SchemaExists(schemas', n) ]_vars

\* C15: drop(name), once the database executes it, reports success and
\* leaves exists(name) false whether or not the namespace existed; the drop
\* of an absent namespace changes nothing, and no drop touches another
\* namespace.
C15_DropIsNoOpWhenAbsent ==
    [][ \A n \in StoreNames :
            SchemaDrop(n, TRUE) =>
                /\ response'.code = "True"
                /\ ~SchemaExists(schemas', n)
                /\ schemas' \ {n} = schemas \ {n}
                /\ ~SchemaExists(schemas, n) =>
                       schemas' = schemas /\ tables' = tables ]_vars

\* an absent namespace was dropped, with success, beside an existing one
C15_Witness ==
    /\ response.op = "drop_schema" /\ response.code = "True"
    /\ response.error = "skipping"
    /\ SchemaExists(schemas, StoreA) /\ ~SchemaExists(schemas, StoreB1)

\* the identifier rule of the Schema Store
ValidSchemaIdentifier(name) ==
    /\ MatchesSchemaRegex(name)
    /\ Len(name) <= MaxSchemaLen
    /\ name # PublicSchema

\* C16: create and drop reject an identifier that does not start with a
\* lowercase letter, holds a character outside [a-z0-9_], is longer than 63
\* or is reserved, without changing the set of namespaces.
C16_MalformedIdentifierRejected ==
    [][ \A n \in StoreNames :
            ( /\ ~ValidSchemaIdentifier(n)
              /\ SchemaCreate(n, TRUE) \/ SchemaDrop(n, TRUE) )
            => response'.code = "False" /\ schemas' = schemas ]_vars

(***************************************************************************)
(* Cloning a namespace.  A table is kept as its namespace, its name and its *)
(* rows; the business tables and their rows are written by the ledger       *)
(* application, which the Schema Store only names (app_label ledger).       *)
(***************************************************************************)
LedgerTables == {"accounts", "entries"}

RowIds == 1..MaxRows

CloneNames == {StoreA, StoreB1}

TablesIn(tbls, schema) == {t \in tbls : t.schema = schema}

\* the tables of a namespace without the namespace: name and rows
Shape(tbls) == {[name |-> t.name, rows |-> t.rows] : t \in tbls}

\* the statement at which the database refuses to go on: 0 is CREATE SCHEMA,
\* k the k-th table of the loop; a larger number is no refusal
StopPoints == 0..(Cardinality(LedgerTables) + 1)

\* the loop of clone_schema over the table names read from the source:
\* CREATE TABLE ... (LIKE ...) and INSERT ... SELECT * for each
RECURSIVE CloneTables(_, _, _, _, _)
CloneTables(db, todo, target, k, stop) ==
    IF todo = {} THEN Step(db, "")
    ELSE LET t == First(todo)
         IN  IF k = stop THEN Step(db, "OperationalError")
             ELSE IF \E u \in db.tables : u.schema = target /\ u.name = t.name
             THEN Step(db, "DuplicateTable")
             ELSE CloneTables(
                      [db EXCEPT !.tables = @ \cup
                          {[schema |-> target, name |-> t.name, rows |-> t.rows]}],
                      todo \ {t}, target, k + 1, stop)

\* the statements of clone_schema in order, with what each has written when
\* one of them raises
CloneStatements(db, source, target, stop) ==
    IF stop = 0 THEN Step(db, "OperationalError")
    ELSE CloneTables([db EXCEPT !.schemas = @ \cup {target}],
                     TablesIn(db.tables, source), target, 1, stop)

CloneSchemaNoRollback(db, source, target, stop) ==
    LET s == CloneStatements(db, source, target, stop)
    IN  [db |-> s.db, ret |-> s.exc = "", exc |-> s.exc]

\* SchemaManager.clone_schema under transaction.atomic: the exception is
\* caught inside the block, and the statement that raised it has aborted the
\* transaction, so that the commit at the end of the block undoes it
CloneSchema(db, source, target, stop) ==
    LET s == Atomic(db, CloneStatements(db, source, target, stop))
    IN  [db |-> s.db, ret |-> s.exc = "", exc |-> s.exc]

SchemaClone(source, target, stop) ==
    /\ StoreFrame
    /\ LET r == CloneSchema(DB, source, target, stop)
       IN  /\ schemas' = r.db.schemas
           /\ tables' = r.db.tables
           /\ Respond("clone_schema", IF r.ret THEN "True" ELSE "False", r.exc)

\* the ledger application creates a table in a tenant namespace
LedgerCreateTable(schema, table) ==
    /\ StoreFrame
    /\ UNCHANGED <<schemas, response>>
    /\ SchemaExists(schemas, schema)
    /\ \A t \in TablesIn(tables, schema) : t.name # table
    /\ tables' = tables \cup {[schema |-> schema, name |-> table, rows |-> {}]}

\* the ledger application writes a row
LedgerInsert(schema, table, row) ==
    /\ StoreFrame
    /\ UNCHANGED <<schemas, response>>
    /\ \E t \in TablesIn(tables, schema) :
          /\ t.name = table /\ row \notin t.rows
          /\ tables' = (tables \ {t}) \cup {[t EXCEPT !.rows = @ \cup {row}]}

NextClone ==
    \/ \E n \in CloneNames : SchemaCreate(n, TRUE)
    \/ \E n \in CloneNames : SchemaDrop(n, TRUE)
    \/ \E n \in CloneNames, t \in LedgerTables : LedgerCreateTable(n, t)
    \/ \E n \in CloneNames, t \in LedgerTables, r \in RowIds : LedgerInsert(n, t, r)
    \/ \E a \in CloneNames, b \in CloneNames, stop \in StopPoints : SchemaClone(a, b, stop)

SpecClone == Init /\ [][NextClone]_vars

\* C17 as stated: when clone reports success the target holds exactly the
\* tables of the source, each with the same rows; when it fails none of its
\* effects are visible.
C17_CloneExactOrNothing ==
    [][ \A a \in CloneNames, b \in CloneNames, stop \in StopPoints :
            SchemaClone(a, b, stop) =>
                /\ response'.code = "True" =>
                       Shape(TablesIn(tables', b)) = Shape(TablesIn(tables, a))
                /\ response'.code = "False" =>
                       tables' = tables /\ schemas' = schemas ]_vars

\* C17 as amended: when clone reports success the target exists and holds
\* every table of the source with the same rows, next to the tables it held
\* before the call, which are unchanged; when it fails none of its effects
\* are visible.  No clone changes another namespace.
C17_CloneAllOrNothing ==
    [][ \A a \in CloneNames, b \in CloneNames, stop \in StopPoints :
            SchemaClone(a, b, stop) =>
                /\ response'.code = "True" =>
                       /\ SchemaExists(schemas', b)
                       /\ Shape(TablesIn(tables', b)) =
                              Shape(TablesIn(tables, a)) \cup Shape(TablesIn(tables, b))
                       /\ tables \subseteq tables'
                       /\ \A t \in tables' \ tables : t.schema = b
                /\ response'.code = "False" =>
                       tables' = tables /\ schemas' = schemas ]_vars

\* a clone failed on a table the target already held, after it had copied
\* another table, and the target is left without the copy
C17_Witness ==
    /\ response.op = "clone_schema" /\ response.code = "False"
    /\ response.error = "DuplicateTable"
    /\ Cardinality(TablesIn(tables, StoreA)) = 2
    /\ Cardinality(TablesIn(tables, StoreB1)) = 1

(***************************************************************************)
(* The active namespace.  Each worker handles its request on a connection   *)
(* of its own (django.db.connection is per thread), and search_path is a    *)
(* setting of the connection.  The statements SET search_path and SELECT    *)
(* current_schema() are taken to succeed, and no namespace is dropped       *)
(* while a request holds it.                                                *)
(***************************************************************************)
ConnNames == {StoreA, StoreB1}

\* the result of get_current_schema when no namespace of the path exists
NoSchema == <<>>

RECURSIVE FirstExisting(_, _)
FirstExisting(path, present) ==
    IF path = <<>> THEN NoSchema
    ELSE IF Head(path) \in present THEN Head(path)
    ELSE FirstExisting(Tail(path), present)

\* SELECT current_schema(): the first namespace of the connection's
\* search_path that exists
GetCurrentSchema(paths, w, present) == FirstExisting(paths[w], present)

SetPathShared(paths, w, schema_name) ==
    [v \in DOMAIN paths |-> <<schema_name, PublicSchema>>]

\* SET search_path TO "<schema_name>", public on the connection of worker w
SetPath(paths, w, schema_name) ==
    [paths EXCEPT ![w] = <<schema_name, PublicSchema>>]

ConnFrame == UNCHANGED <<entities, memberships, settings, audit, schemas, tables,
                         nextEntityId, nextMembershipId>>

InContext(previous) == [pc |-> "in_context", previous |-> previous]

\* SchemaManager.set_search_path called by the request of worker w
SetSearchPath(w, schema_name) ==
    /\ ConnFrame
    /\ UNCHANGED calls
    /\ search_path' = SetPath(search_path, w, schema_name)
    /\ Respond("set_search_path", w, "")

\* SchemaContext.__enter__
ContextEnter(w, schema_name) ==
    /\ ConnFrame
    /\ calls[w].pc = "idle"
    /\ calls' = [calls EXCEPT ![w] = InContext(GetCurrentSchema(search_path, w, schemas))]
    /\ search_path' = SetPath(search_path, w, schema_name)
    /\ Respond("enter_context", w, "")

\* SchemaContext.__exit__
ContextExit(w) ==
    /\ ConnFrame
    /\ calls[w].pc = "in_context"
    /\ calls' = [calls EXCEPT ![w] = Idle]
    /\ search_path' = IF calls[w].previous # NoSchema
                       THEN SetPath(search_path, w, calls[w].previous)
                       ELSE search_path
    /\ Respond("exit_context", w, "")

NextConn ==
    \/ \E n \in ConnNames : SchemaCreate(n, TRUE)
    \/ \E w \in Workers, n \in ConnNames : SetSearchPath(w, n)
    \/ \E w \in Workers, n \in ConnNames : ContextEnter(w, n)
    \/ \E w \in Workers : ContextExit(w)

SpecConn == Init /\ [][NextConn]_vars

\* a step of the request of worker w
ConnStep(w) ==
    \/ \E n \in ConnNames : SetSearchPath(w, n) \/ ContextEnter(w, n)
    \/ ContextExit(w)

\* C18: the active namespace is state of one connection: no step of a
\* request changes what get_current_schema returns on another connection,
\* in any interleaving, and leaving a SchemaContext makes active again the
\* namespace that was active on the connection when it was entered.
C18_ActiveNamespacePerConnection ==
    [][ \A w \in Workers :
            /\ ConnStep(w) =>
                   \A v \in Workers \ {w} :
                       GetCurrentSchema(search_path', v, schemas') =
                           GetCurrentSchema(search_path, v, schemas)
            /\ ContextExit(w) =>
                   GetCurrentSchema(search_path', w, schemas') = calls[w].previous ]_vars

\* worker w1 left a context and is back on the namespace it had set before,
\* while worker w2 is inside a context on another namespace
C18_Witness ==
    /\ response.op = "exit_context" /\ response.code = "w1"
    /\ GetCurrentSchema(search_path, "w1", schemas) = StoreA
    /\ calls["w2"].pc = "in_context"
    /\ GetCurrentSchema(search_path, "w2", schemas) = StoreB1

(***************************************************************************)
(* Tenant resolution per request.  An identifier reaches the program as     *)
(* text; Entity.id is a UUIDField, whose lookup converts the text and       *)
(* raises ValidationError for text that is no UUID.  The uuid of tenant i   *)
(* is written ToString(i).                                                  *)
(***************************************************************************)
NoMembership == 0

\* an identifier that was not supplied
NoId == ""

\* text that is not a UUID (the identifier of test_process_request_invalid_entity)
NotAUuid == "99999"

UuidValues == 0..MaxEntities

IsUuidText(text) == \E i \in UuidValues : ToString(i) = text

\* UUIDField.to_python
ToPython(text) == CHOOSE i \in UuidValues : ToString(i) = text

\* Entity.objects.get(id=text)
EntityGet(rows, text) ==
    IF ~IsUuidText(text) THEN [exc |-> "ValidationError", id |-> NoEntity]
    ELSE IF ToPython(text) \notin EntityIds(rows) THEN [exc |-> "DoesNotExist", id |-> NoEntity]
    ELSE [exc |-> "", id |-> ToPython(text)]

\* a or b of two optional texts
FirstSupplied(a, b) == IF a # NoId THEN a ELSE b

\* what a request carries after the middleware or a decorator: the tenant
\* and membership attached to it, and whether the handler body ran
RequestState(user, entity, membership, ran) ==
    [pc |-> "request", user |-> user, entity |-> entity, membership |-> membership,
     ran |-> ran]

Resolved(status, entity, membership, ran, exc) ==
    [status |-> status, entity |-> entity, membership |-> membership, ran |-> ran,
     exc |-> exc]

\* EntityContextMiddleware.process_request; user NoUser is AnonymousUser
ProcessRequestOutcome(db, user, header, query) ==
    LET entity_id == FirstSupplied(header, query)
    IN  IF user = NoUser THEN Resolved("None", NoEntity, NoMembership, TRUE, "")
        ELSE IF entity_id = NoId THEN Resolved("None", NoEntity, NoMembership, TRUE, "")
        ELSE LET got == EntityGet(db.entities, entity_id)
                 mine == ActiveMembershipsOf(db.memberships, got.id, user)
             IN  IF got.exc = "DoesNotExist"
                 THEN Resolved("None", NoEntity, NoMembership, TRUE, "")
                 ELSE IF got.exc # ""
                 THEN Resolved("500", NoEntity, NoMembership, FALSE, got.exc)
                 ELSE IF mine # {}
                 THEN Resolved("None", got.id, First(mine).id, TRUE, "")
                 ELSE Resolved("None", NoEntity, NoMembership, TRUE, "")

\* getattr(membership, permission, False)
GetFlag(m, permission) == IF permission \in FlagNames THEN m[permission] ELSE FALSE

\* the wrapper of require_entity_permission(permission) around a handler
\* that answers 200; kw is the entity_id of the route, query that of the
\* query string
RequireEntityPermission(db, user, kw, query, permission) ==
    LET entity_id == FirstSupplied(kw, query)
    IN  IF user = NoUser THEN Resolved("401", NoEntity, NoMembership, FALSE, "")
        ELSE IF entity_id = NoId THEN Resolved("400", NoEntity, NoMembership, FALSE, "")
        ELSE LET got == EntityGet(db.entities, entity_id)
                 mine == ActiveMembershipsOf(db.memberships, got.id, user)
             IN  IF got.exc = "DoesNotExist"
                 THEN Resolved("404", NoEntity, NoMembership, FALSE, "")
                 ELSE IF got.exc # ""
                 THEN Resolved("500", NoEntity, NoMembership, FALSE, got.exc)
                 ELSE IF mine = {}
                 THEN Resolved("403", NoEntity, NoMembership, FALSE, "")
                 ELSE IF ~GetFlag(First(mine), permission)
                 THEN Resolved("403", NoEntity, NoMembership, FALSE, "")
                 ELSE Resolved("200", got.id, First(mine).id, TRUE, "")

\* the wrapper of require_entity_role(*roles) around a handler that answers 200
RequireEntityRole(db, user, kw, query, roles) ==
    LET entity_id == FirstSupplied(kw, query)
    IN  IF user = NoUser THEN Resolved("401", NoEntity, NoMembership, FALSE, "")
        ELSE IF entity_id = NoId THEN Resolved("400", NoEntity, NoMembership, FALSE, "")
        ELSE LET got == EntityGet(db.entities, entity_id)
                 mine == ActiveMembershipsOf(db.memberships, got.id, user)
             IN  IF got.exc = "DoesNotExist"
                 THEN Resolved("404", NoEntity, NoMembership, FALSE, "")
                 ELSE IF got.exc # ""
                 THEN Resolved("500", NoEntity, NoMembership, FALSE, got.exc)
                 ELSE IF mine = {}
                 THEN Resolved("403", NoEntity, NoMembership, FALSE, "")
                 ELSE IF First(mine).role \notin roles
                 THEN Resolved("403", NoEntity, NoMembership, FALSE, "")
                 ELSE Resolved("200", got.id, First(mine).id, TRUE, "")

AccessFrame == UNCHANGED <<entities, memberships, settings, audit, schemas, tables,
                           search_path, nextEntityId, nextMembershipId>>

\* the request is handled by worker w1
Attach(r, user) ==
    calls' = [calls EXCEPT !["w1"] = RequestState(user, r.entity, r.membership, r.ran)]

ProcessRequest(user, header, query) ==
    /\ AccessFrame
    /\ LET r == ProcessRequestOutcome(DB, user, header, query)
       IN  Attach(r, user) /\ Respond("process_request", r.status, r.exc)

RequirePermissionCall(user, kw, query, permission) ==
    /\ AccessFrame
    /\ LET r == RequireEntityPermission(DB, user, kw, query, permission)
       IN  Attach(r, user) /\ Respond("require_entity_permission", r.status, r.exc)

RequireRoleCall(user, kw, query, roles) ==
    /\ AccessFrame
    /\ LET r == RequireEntityRole(DB, user, kw, query, roles)
       IN  Attach(r, user) /\ Respond("require_entity_role", r.status, r.exc)

\* a view that declares no required_entity_permission
NoPermission == ""

\* EntityPermissionMiddleware.process_view for a request that carries r after
\* process_request: the answer it gives, or "None" when the view is invoked
ProcessViewOutcome(db, user, r, required_permission) ==
    IF user = NoUser THEN "None"
    ELSE IF r.entity = NoEntity THEN "None"
    ELSE IF required_permission = NoPermission THEN "None"
    ELSE IF r.membership = NoMembership THEN "403"
    ELSE IF ~GetFlag(MembershipById(db.memberships, r.membership), required_permission)
    THEN "403"
    ELSE "None"

\* a request through EntityContextMiddleware and EntityPermissionMiddleware
\* to a view that declares required_permission and answers 200
ProtectedOutcome(db, user, header, query, required_permission) ==
    LET r == ProcessRequestOutcome(db, user, header, query)
        v == ProcessViewOutcome(db, user, r, required_permission)
    IN  IF r.exc # "" THEN r
        ELSE IF v # "None" THEN Resolved(v, r.entity, r.membership, FALSE, "")
        ELSE Resolved("200", r.entity, r.membership, TRUE, "")

ProtectedRequest(user, header, query, required_permission) ==
    /\ AccessFrame
    /\ LET r == ProtectedOutcome(DB, user, header, query, required_permission)
       IN  Attach(r, user) /\ Respond("process_view", r.status, r.exc)

IdTexts == {NoId, NotAUuid} \cup {ToString(i) : i \in 0..MaxMemberTenants}

AccessStatuses == {"active", "invited"}

AccessPermissions == {"can_manage_users", "can_view_reports", "can_do_anything"}

AccessRoles == {{"owner"}, {"owner", "viewer"}}

NextAccess ==
    \/ \E n \in MemberNames :
           nextEntityId <= MaxMemberTenants /\ CreateTenant("alice", n, AllSucceed)
    \/ \E id \in MemberEntityIds, u \in Users, r \in MemberRoles, st \in AccessStatuses :
           MembershipObjectsCreate(id, u, r, st)
    \/ \E u \in Users \cup {NoUser}, h \in IdTexts, q \in IdTexts : ProcessRequest(u, h, q)
    \/ \E u \in Users \cup {NoUser}, k \in IdTexts, q \in IdTexts, p \in AccessPermissions :
           RequirePermissionCall(u, k, q, p)
    \/ \E u \in Users \cup {NoUser}, h \in IdTexts, q \in IdTexts,
          p \in AccessPermissions \cup {NoPermission} : ProtectedRequest(u, h, q, p)
    \/ \E u \in Users \cup {NoUser}, k \in IdTexts, q \in IdTexts, rs \in AccessRoles :
           RequireRoleCall(u, k, q, rs)

SpecAccess == Init /\ [][NextAccess]_vars

\* the tenants whose identifier is the text
Matching(text) == {e \in entities : ToString(e.id) = text}

\* the active memberships of the user on the tenant the text names
ActiveOn(text, user) ==
    {m \in memberships : /\ m.user = user /\ m.status = "active"
                         /\ \E e \in Matching(text) : m.entity = e.id}

\* C19: after process_request the request has a tenant if and only if the
\* user is authenticated, an identifier was supplied (header, else query
\* parameter), that tenant exists and the user has an active membership on
\* it, and the attached membership is that one; in every other case the
\* tenant context is absent and no server error is raised.
C19_ContextIffActiveMember ==
    [][ \A u \in Users \cup {NoUser}, h \in IdTexts, q \in IdTexts :
            ProcessRequest(u, h, q) =>
                LET text == FirstSupplied(h, q)
                    r == calls'["w1"]
                IN  /\ response'.error = ""
                    /\ r.entity # NoEntity <=>
                           u # NoUser /\ text # NoId /\ ActiveOn(text, u) # {}
                    /\ r.entity # NoEntity =>
                           \E m \in ActiveOn(text, u) :
                               m.id = r.membership /\ m.entity = r.entity ]_vars

\* the answer the decorators owe; passing holds the active memberships of
\* the user on the tenant that satisfy the decorator's condition
Owed(user, text, passing) ==
    IF user = NoUser THEN "401"
    ELSE IF text = NoId THEN "400"
    ELSE IF Matching(text) = {} THEN "404"
    ELSE IF passing = {} THEN "403"
    ELSE "200"

\* C20: a handler wrapped by require_entity_permission(p) or
\* require_entity_role(roles) runs only for an authenticated user who
\* supplies the identifier of an existing tenant on which the user has an
\* active membership whose flag p is true (whose role is in roles);
\* otherwise the body does not run and the answer is, in this order of
\* precedence, 401, 400, 404, 403.
C20_HandlerGuarded ==
    [][ \A u \in Users \cup {NoUser}, k \in IdTexts, q \in IdTexts :
            /\ \A p \in AccessPermissions :
                   RequirePermissionCall(u, k, q, p) =>
                       LET owed == Owed(u, FirstSupplied(k, q),
                                        {m \in ActiveOn(FirstSupplied(k, q), u) :
                                            p \in FlagNames /\ m[p]})
                       IN  /\ response'.code = owed
                           /\ calls'["w1"].ran <=> owed = "200"
            /\ \A rs \in AccessRoles :
                   RequireRoleCall(u, k, q, rs) =>
                       LET owed == Owed(u, FirstSupplied(k, q),
                                        {m \in ActiveOn(FirstSupplied(k, q), u) :
                                            m.role \in rs})
                       IN  /\ response'.code = owed
                           /\ calls'["w1"].ran <=> owed = "200" ]_vars

\* C21: behind the two middlewares a view that declares a required
\* permission p is invoked for an authenticated request only when the user
\* has an active membership on the requested tenant with flag p true; every
\* other authenticated request to it is answered 403, also when the user is
\* no member of the tenant or the request names no tenant.
C21_ProtectedViewGuarded ==
    [][ \A u \in Users, h \in IdTexts, q \in IdTexts, p \in AccessPermissions :
            ProtectedRequest(u, h, q, p) =>
                LET passing == {m \in ActiveOn(FirstSupplied(h, q), u) :
                                   p \in FlagNames /\ m[p]}
                IN  /\ calls'["w1"].ran <=> passing # {}
                    /\ passing = {} => response'.code = "403" ]_vars

(***************************************************************************)
(* Managing the members of several tenants.                                 *)
(***************************************************************************)
ManageEntityIds == 1..MaxEntities

ManageEntityParams == {NoEntity} \cup ManageEntityIds

NextManage ==
    \/ \E n \in MemberNames : CreateTenant("alice", n, AllSucceed)
    \/ \E id \in ManageEntityIds, u \in Users, r \in MemberRoles :
           MembershipObjectsCreate(id, u, r, "active")
    \/ \E a \in Users, id \in MemberIds, ep \in ManageEntityParams, d \in RoleData,
          perm \in BOOLEAN : UpdateRole(a, id, ep, d, perm)
    \/ \E a \in Users, id \in MemberIds, ep \in ManageEntityParams, perm \in BOOLEAN :
           Remove(a, id, ep, perm)

SpecManage == Init /\ [][NextManage]_vars

\* the user has a membership on the tenant with manage-users true
HoldsManageUsers(user, entity_id) ==
    \E m \in MembershipsOf(memberships, entity_id, user) : m.can_manage_users

C23_AcceptInvitation ==
    [][ \A a \in Users, id \in MemberIds, ep \in EntityParams :
            (id \in MembershipIds(memberships) /\ AcceptInvitation(a, id, ep, TRUE)) =>
                LET m == MembershipById(memberships, id)
                IN  IF m.user # a
                    THEN response'.code = "403" /\ memberships' = memberships
                    ELSE IF m.status # "invited"
                    THEN response'.code = "400" /\ memberships' = memberships
                    ELSE /\ response'.code = "200"
                         /\ memberships' = (memberships \ {m}) \cup
                                {[m EXCEPT !.status = "active", !.accepted = TRUE]} ]_vars

(***************************************************************************)
(* Audit entries written after the response.  The action tag is the text    *)
(* "<method> <path>", stored in a column of MaxActionLen characters.        *)
(***************************************************************************)
MaxActionLen == 50

LoggedMethods == {"POST", "PUT", "PATCH", "DELETE"}

ListPath == "/api/entities/"

DetailPath == "/api/memberships/00000000-0000-0000-0000-000000000002/remove/"

RequestAction(method, path) == method \o " " \o path

\* EntityAuditMiddleware.process_response for a request that carries the
\* tenant `entity`; ok tells whether the database accepts the insert
AuditResponseOutcome(db, user, entity, method, path, status_code, ok) ==
    IF user = NoUser THEN db
    ELSE IF entity = NoEntity THEN db
    ELSE IF method \notin LoggedMethods THEN db
    ELSE IF status_code >= 400 THEN db
    ELSE IF ~ok \/ Len(RequestAction(method, path)) > MaxActionLen THEN db
    ELSE AuditCreate(db, entity, user, RequestAction(method, path))

\* a request through EntityContextMiddleware to a view that answers
\* status_code, and back through EntityAuditMiddleware
AuditedRequest(user, header, query, method, path, status_code, ok) ==
    /\ UNCHANGED <<entities, memberships, settings, schemas, tables, search_path,
                   nextEntityId, nextMembershipId>>
    /\ LET r == ProcessRequestOutcome(DB, user, header, query)
       IN  /\ Attach(r, user)
           /\ IF r.exc # ""
              THEN UNCHANGED audit /\ Respond("audited_request", r.status, r.exc)
              ELSE /\ audit' = AuditResponseOutcome(DB, user, r.entity, method, path,
                                                    status_code, ok).audit
                   /\ Respond("audited_request", ToString(status_code), "")

\* EntityAuditLog.objects.create when the database may refuse the insert
AuditWrite(db, entity, user, action, ok) ==
    IF ok THEN Step(AuditCreate(db, entity, user, action), "")
    ELSE Step(db, "DatabaseError")

\* EntityViewSet.activate when the audit table may refuse a write: ok[1] is
\* the insert of entity_post_save, ok[2] the insert of the view.  The row
\* of the tenant is committed by save() before the receiver runs.
ActivateWithAudit(user, id, ok) ==
    /\ UNCHANGED <<nextEntityId, nextMembershipId, calls, search_path>>
    /\ IF id \notin EntityIds(EntityQueryset(user))
       THEN /\ Respond("activate", "404", "NotFound")
            /\ UNCHANGED <<entities, memberships, settings, audit, schemas, tables>>
       ELSE LET old == EntityById(entities, id)
                new == [old EXCEPT !.status = "active", !.is_active = TRUE,
                                   !.activated_at = Now(@)]
                saved == [DB EXCEPT !.entities = (@ \ {old}) \cup {new}]
                s1 == AuditWrite(saved, id, NoUser, "entity_updated", ok[1])
                s2 == IF s1.exc # "" THEN s1
                      ELSE AuditWrite(s1.db, id, user, "activated", ok[2])
            IN  /\ old.activated_at < MaxStamp
                /\ Commit(s2.db)
                /\ Respond("activate", IF s2.exc = "" THEN "200" ELSE "500", s2.exc)

AuditOutcomes == [1..2 -> BOOLEAN]

AuditMethods == {"GET", "POST"}

AuditPaths == {ListPath, DetailPath}

StatusCodes == {200, 302, 404}

AuditIdTexts == {NoId, ToString(1)}

NextAudit ==
    \/ \E n \in MemberNames :
           nextEntityId <= MaxMemberTenants /\ CreateTenant("alice", n, AllSucceed)
    \/ \E id \in MemberEntityIds, u \in Users, st \in AccessStatuses :
           MembershipObjectsCreate(id, u, "viewer", st)
    \/ \E u \in Users \cup {NoUser}, q \in AuditIdTexts, m \in AuditMethods,
          path \in AuditPaths, c \in StatusCodes, ok \in BOOLEAN :
           AuditedRequest(u, NoId, q, m, path, c, ok)
    \/ \E id \in MemberEntityIds, ok \in AuditOutcomes : ActivateWithAudit("root", id, ok)

SpecAudit == Init /\ [][NextAudit]_vars

\* C24: EntityAuditMiddleware writes an entry (tenant, user, method + path)
\* for a request if and only if the user is authenticated, a tenant context
\* was resolved, the method is POST, PUT, PATCH or DELETE and the response
\* has a 2xx status; nothing is written otherwise.  The database accepts
\* every insert it is sent here.
C24_AuditIffSuccessfulChange ==
    [][ \A u \in Users \cup {NoUser}, q \in AuditIdTexts, m \in AuditMethods,
          path \in AuditPaths, c \in StatusCodes :
            AuditedRequest(u, NoId, q, m, path, c, TRUE) =>
                LET due == /\ u # NoUser
                           /\ ActiveOn(q, u) # {}
                           /\ m \in LoggedMethods
                           /\ c \in 200..299
                    entry == AuditEntry(ToPython(q), u, RequestAction(m, path))
                IN  /\ ~due => audit' = audit
                    /\ due => audit' = audit \cup {entry} ]_vars

\* C25: a failure of an audit write made as a side effect never fails the
\* primary operation: activate still activates the tenant and answers 200
\* when either of its audit writes fails, and a response keeps its status
\* when the write of EntityAuditMiddleware fails.
C25_AuditFailureIsHarmless ==
    [][ /\ \A id \in MemberEntityIds, ok \in AuditOutcomes :
              (id \in EntityIds(entities) /\ ActivateWithAudit("root", id, ok)) =>
                  /\ response'.code = "200"
                  /\ EntityById(entities', id).status = "active"
        /\ \A u \in Users, q \in AuditIdTexts, m \in AuditMethods, path \in AuditPaths,
              c \in StatusCodes :
              AuditedRequest(u, NoId, q, m, path, c, FALSE) =>
                  response'.code = ToString(c) ]_vars

(***************************************************************************)
(* The Audit Log under the operations that write it.  An entry is kept as   *)
(* (tenant, action tag), so "the operation added an entry" is stated as:    *)
(* after it the log holds an entry of the tenant with the operation's tag.  *)
(***************************************************************************)
\* the log of the first tenant is followed
LogEntityIds == {1}

NextLog ==
    \/ \E n \in LifecycleNames :
           nextEntityId \in LogEntityIds /\ CreateTenant("alice", n, AllSucceed)
    \/ \E id \in LogEntityIds, u \in Users, r \in MemberRoles :
           MembershipObjectsCreate(id, u, r, "active")
    \/ \E a \in Users, id \in LogEntityIds, u \in Users :
           Invite(a, id, u, "viewer", DefaultFlags, TRUE)
    \/ \E a \in Users, id \in MemberIds : Remove(a, id, NoEntity, TRUE)
    \/ \E id \in LogEntityIds : Activate("root", id, TRUE)
    \/ \E id \in LogEntityIds : Deactivate("root", id, TRUE)
    \/ \E id \in LogEntityIds, keep \in BOOLEAN : DeleteEntity(id, keep, TRUE)

SpecLog == Init /\ [][NextLog]_vars

EntriesOf(rows, entity_id) == {a \in rows : a.entity = entity_id}

Logged(rows, entity_id, action) == \E a \in EntriesOf(rows, entity_id) : a.action = action

Returned(op, user, ids) == [pc |-> op, user |-> user, ids |-> ids]

\* EntityViewSet.list
ListEntities(user) ==
    /\ AccessFrame
    /\ UNCHANGED response
    /\ calls' = [calls EXCEPT !["w1"] =
                     Returned("list", user, EntityIds(EntityQueryset(user)))]

\* EntityViewSet.retrieve
RetrieveEntity(user, id) ==
    /\ AccessFrame
    /\ UNCHANGED response
    /\ calls' = [calls EXCEPT !["w1"] =
                     Returned("retrieve", user, {id} \cap EntityIds(EntityQueryset(user)))]

ReachActors == Users \cup Superusers

\* two tenants are followed, the second one under reads only
ReachEntityIds == {1, 2}

ChangedEntityIds == {1}

ReachNames == [i \in ReachEntityIds |-> IF i = 1 THEN Nameab ELSE NameASpaceB]

ReachStatuses == {"active", "invited"}

ReachData == {[name |-> NameADotB]}

NextReach ==
    \/ \E id \in ReachEntityIds :
           nextEntityId = id /\ CreateTenant("alice", ReachNames[id], AllSucceed)
    \/ \E id \in ReachEntityIds, st \in ReachStatuses :
           MembershipObjectsCreate(id, "alice", "viewer", st)
    \/ \E u \in ReachActors : ListEntities(u)
    \/ \E u \in ReachActors, id \in ReachEntityIds : RetrieveEntity(u, id)
    \/ \E u \in ReachActors, id \in ChangedEntityIds, d \in ReachData : UpdateTenant(u, id, d)
    \/ \E u \in ReachActors, id \in ChangedEntityIds : Activate(u, id, TRUE)
    \/ \E u \in ReachActors, id \in ChangedEntityIds : Deactivate(u, id, TRUE)

SpecReach == Init /\ [][NextReach]_vars

\* the tenant exists and the caller is a superuser or has a membership with
\* status active on it
Reaches(user, id) ==
    /\ id \in EntityIds(entities)
    /\ \/ user \in Superusers
       \/ \E m \in memberships : m.entity = id /\ m.user = user /\ m.status = "active"

\* C27: list, retrieve, update, activate and deactivate of a caller who is
\* no superuser reach exactly the tenants on which the caller has a
\* membership with status active: any other tenant is neither returned nor
\* modified.  A superuser reaches all tenants.
C27_TenantsScopedToActiveMembers ==
    [][ \A u \in ReachActors :
            /\ ListEntities(u) =>
                   calls'["w1"].ids = {id \in ReachEntityIds : Reaches(u, id)}
            /\ \A id \in ReachEntityIds :
                   RetrieveEntity(u, id) =>
                       calls'["w1"].ids = {i \in {id} : Reaches(u, i)}
            /\ \A id \in ChangedEntityIds :
                      ( \/ \E d \in ReachData : UpdateTenant(u, id, d)
                        \/ Activate(u, id, TRUE)
                        \/ Deactivate(u, id, TRUE) ) =>
                          IF Reaches(u, id)
                          THEN response'.code # "404" /\ response'.code # "403"
                          ELSE response'.code = "404" /\ entities' = entities ]_vars

\* a list returned one of two tenants to alice, who has an active
\* membership on it and only an invited one on the other
C27_Witness ==
    /\ calls["w1"].pc = "list" /\ calls["w1"].user = "alice"
    /\ Cardinality(entities) = 2 /\ Cardinality(calls["w1"].ids) = 1
    /\ \E m \in memberships : m.user = "alice" /\ m.status = "invited"
    /\ \E m \in memberships : m.user = "alice" /\ m.status = "active"

(***************************************************************************)
(* Which memberships a caller is shown.                                     *)
(***************************************************************************)
\* EntityMembershipViewSet.list; perm is the verdict of IsEntityMember, whose
\* module is not part of the repository
ListMemberships(user, entity_param, perm) ==
    /\ AccessFrame
    /\ IF ~perm
       THEN /\ Respond("list_memberships", "403", "PermissionDenied")
            /\ calls' = [calls EXCEPT !["w1"] = Returned("list_memberships", user, {})]
       ELSE /\ Respond("list_memberships", "200", "")
            /\ calls' = [calls EXCEPT !["w1"] =
                             Returned("list_memberships", user,
                                      MembershipIds(MembershipQueryset(user, entity_param)))]

NextMemberList ==
    \/ \E id \in ReachEntityIds :
           nextEntityId = id /\ CreateTenant("alice", ReachNames[id], AllSucceed)
    \/ \E id \in ReachEntityIds, u \in Users, st \in ReachStatuses :
           MembershipObjectsCreate(id, u, "viewer", st)
    \/ \E u \in Users, ep \in {NoEntity} \cup ReachEntityIds, perm \in BOOLEAN :
           ListMemberships(u, ep, perm)

SpecMemberList == Init /\ [][NextMemberList]_vars

\* C28: the membership list returns only memberships of tenants on which the
\* caller has an active membership, with or without the tenant filter.
C28_MembershipsScopedToCaller ==
    [][ \A u \in Users, ep \in {NoEntity} \cup ReachEntityIds, perm \in BOOLEAN :
            ListMemberships(u, ep, perm) =>
                \A id \in calls'["w1"].ids :
                    ActiveMembershipsOf(memberships,
                                        MembershipById(memberships, id).entity, u) # {} ]_vars

(***************************************************************************)
(* What updateRole may write.                                               *)
(***************************************************************************)
\* request bodies of PATCH update_role: entity, user, status and invited_by
\* are not in read_only_fields of EntityMembershipSerializer
FrameData == {[role |-> "admin"],
              [can_manage_settings |-> TRUE],
              [entity |-> 2],
              [status |-> "suspended"],
              [entity |-> 2, user |-> "alice"],
              [invited_by |-> "bob"]}

NextUpdate ==
    \/ \E id \in ReachEntityIds :
           nextEntityId = id /\ CreateTenant("alice", ReachNames[id], AllSucceed)
    \/ \E id \in ReachEntityIds, u \in Users, r \in MemberRoles :
           MembershipObjectsCreate(id, u, r, "active")
    \/ \E a \in Users, id \in MemberIds, d \in FrameData, perm \in BOOLEAN :
           UpdateRole(a, id, NoEntity, d, perm)

SpecUpdate == Init /\ [][NextUpdate]_vars

\* C29: updateRole leaves the tenant, the user, the status and the invitation
\* fields of every membership as they were, whatever the request carries.
C29_UpdateRoleFrame ==
    [][ \A a \in Users, id \in MemberIds, d \in FrameData, perm \in BOOLEAN :
            UpdateRole(a, id, NoEntity, d, perm) =>
                \A m \in memberships :
                    \E n \in memberships' :
                        /\ n.id = m.id
                        /\ n.entity = m.entity
                        /\ n.user = m.user
                        /\ n.status = m.status
                        /\ n.invited_by = m.invited_by
                        /\ n.accepted = m.accepted ]_vars

(***************************************************************************)
(* Ownership of a tenant.                                                   *)
(***************************************************************************)
MembershipsOn(rows, entity_id) == {m \in rows : m.entity = entity_id}

\* what a transfer_ownership call that answered `code` must have left behind
TransferKept(entity_id, current_owner, new_owner) ==
    /\ response'.code = "True" =>
           /\ \E m \in ActiveMembershipsOf(memberships', entity_id, new_owner) :
                  m.role = "owner"
           /\ \A m \in MembershipsOn(memberships', entity_id) :
                  m.user = current_owner /\ current_owner # new_owner => m.role = "admin"
    /\ response'.code = "False" =>
           MembershipsOn(memberships', entity_id) = MembershipsOn(memberships, entity_id)

\* C30: every tenant keeps a membership with role owner through invite,
\* acceptInvitation, updateRole, remove and transfer_ownership; a transfer
\* that returns True leaves the new owner an active owner and the previous
\* owner an admin, and one that returns False changes no membership.
C30_OwnerKept ==
    [][ /\ \A id \in EntityIds(entities') :
               \E m \in MembershipsOn(memberships', id) : m.role = "owner"
        /\ \A id \in MemberEntityIds, c \in Users, n \in Users :
               TransferOwnership(id, c, n) => TransferKept(id, c, n) ]_vars

====
